---- MODULE Spec2Model ----
(***************************************************************************)
(* Model of the hash-join hash table of core/vdbe/hash_table.rs:           *)
(* FNV-1a key hashing, typed key equality, chained buckets, the            *)
(* Building -> Probing -> Closed lifecycle and the memory budget.          *)
(***************************************************************************)
EXTENDS Integers, Sequences, FiniteSets, TLC

(***************************************************************************)
(* Bounds of the model.                                                    *)
(***************************************************************************)
\* Largest mem_budget a modelled configuration is constructed with.
MaxBudget == 44

(***************************************************************************)
(* 64-bit unsigned arithmetic.  A u64 is its 8 bytes, least significant    *)
(* first, so that wrapping multiplication keeps its width.                 *)
(***************************************************************************)
RECURSIVE BitXor(_, _)
BitXor(a, b) ==
    IF a = 0 THEN b
    ELSE IF b = 0 THEN a
    ELSE ((a + b) % 2) + 2 * BitXor(a \div 2, b \div 2)

\* hash ^= byte as u64 : only the lowest byte of the accumulator changes.
XorByte(h, byte) == [h EXCEPT ![1] = BitXor(h[1], byte)]

RECURSIVE MulColumn(_, _, _, _)
MulColumn(a, b, i, j) ==
    IF j > i THEN 0 ELSE a[j] * b[i - j + 1] + MulColumn(a, b, i, j + 1)

RECURSIVE MulLimbs(_, _, _, _)
MulLimbs(a, b, i, carry) ==
    IF i > 8 THEN <<>>
    ELSE LET s == MulColumn(a, b, i, 1) + carry
         IN  <<s % 256>> \o MulLimbs(a, b, i + 1, s \div 256)

\* u64::wrapping_mul : the product modulo 2^64.
wrapping_mul(a, b) == MulLimbs(a, b, 1, 0)

RECURSIVE ModLimbs(_, _, _)
ModLimbs(h, n, i) ==
    IF i = 0 THEN 0 ELSE (ModLimbs(h, n, i - 1) * 256 + h[9 - i]) % n

\* (hash as usize) % n on a 64-bit target.
HashMod(h, n) == ModLimbs(h, n, 8)

(***************************************************************************)
(* Values.  Integer is an i64, Float is an f64 given by its bit pattern    *)
(* (8 bytes, least significant first), Text and Blob are byte sequences.   *)
(***************************************************************************)
Null == [tag |-> "Null"]
Integer(i) == [tag |-> "Integer", i |-> i]
Float(bits) == [tag |-> "Float", bits |-> bits]
Text(s) == [tag |-> "Text", s |-> s]
Blob(b) == [tag |-> "Blob", b |-> b]

F64PosZero == <<0, 0, 0, 0, 0, 0, 0, 0>>
F64NegZero == <<0, 0, 0, 0, 0, 0, 0, 128>>
F64One == <<0, 0, 0, 0, 0, 0, 240, 63>>
F64NaN == <<0, 0, 0, 0, 0, 0, 248, 127>>

\* i64::to_le_bytes : two's complement, least significant byte first.
RECURSIVE NatBytes(_, _)
NatBytes(n, count) ==
    IF count = 0 THEN <<>> ELSE <<n % 256>> \o NatBytes(n \div 256, count - 1)

i64_to_le_bytes(i) ==
    IF i >= 0 THEN NatBytes(i, 8)
    ELSE LET m == NatBytes(-(i + 1), 8) IN [j \in 1..8 |-> 255 - m[j]]

\* f64::to_le_bytes : the bit pattern in memory order.
f64_to_le_bytes(bits) == [j \in 1..8 |-> bits[j]]

\* f64 == under IEEE 754: NaN equals nothing, +0.0 equals -0.0.
F64IsNaN(bits) ==
    /\ (bits[8] % 128) * 16 + (bits[7] \div 16) = 2047
    /\ \/ bits[7] % 16 # 0
       \/ \E j \in 1..6 : bits[j] # 0

F64IsZero(bits) == bits[8] % 128 = 0 /\ \A j \in 1..7 : bits[j] = 0

f64_eq(f1, f2) ==
    /\ ~F64IsNaN(f1)
    /\ ~F64IsNaN(f2)
    /\ (f1 = f2 \/ (F64IsZero(f1) /\ F64IsZero(f2)))

(***************************************************************************)
(* Inputs of the model                                                     *)
(***************************************************************************)
\* Key tuples offered to insert and probe.  They include tuples that       
\* collide in hash (Integer 0 / Float +0.0, Null / Blob [0], and the two   
\* Text pairs "ab","c" / "a","bc"), floats that are == with different bits 
\* (+0.0 / -0.0) and a NaN.
KeyDomain ==
    { <<Integer(0)>>, <<Integer(1)>>,
      <<Float(F64PosZero)>>, <<Float(F64NegZero)>>, <<Float(F64NaN)>>,
      <<Null>>, <<Blob(<<0>>)>>,
      <<Text(<<97, 98>>), Text(<<99>>)>>, <<Text(<<97>>), Text(<<98, 99>>)>> }

\* Rows by their encoded payload.
RowDomain == { [payload |-> <<2, 1>>], [payload |-> <<3, 1, 2>>] }

(***************************************************************************)
(* hash_join_key : FNV-1a over the bytes of every value of the tuple.      *)
(***************************************************************************)
FNV_OFFSET_BASIS == <<37, 35, 34, 132, 228, 156, 242, 203>>
FNV_PRIME == <<179, 1, 0, 0, 0, 1, 0, 0>>

\* FNV-1, not FNV-1a: multiply first, XOR afterwards
FnvStep_MulThenXor(hash, byte) == XorByte(wrapping_mul(hash, FNV_PRIME), byte)

FnvStep(hash, byte) == wrapping_mul(XorByte(hash, byte), FNV_PRIME)

RECURSIVE FnvBytes(_, _, _)
FnvBytes(hash, bytes, j) ==
    IF j > Len(bytes) THEN hash
    ELSE FnvBytes(FnvStep(hash, bytes[j]), bytes, j + 1)

\* the bytes one match arm of hash_join_key feeds to the accumulator
ValueBytes(v) ==
    CASE v.tag = "Null" -> <<0>>
      [] v.tag = "Integer" -> i64_to_le_bytes(v.i)
      [] v.tag = "Float" -> f64_to_le_bytes(v.bits)
      [] v.tag = "Text" -> v.s
      [] v.tag = "Blob" -> v.b

RECURSIVE HashFold(_, _, _)
HashFold(hash, key_values, j) ==
    IF j > Len(key_values) THEN hash
    ELSE HashFold(FnvBytes(hash, ValueBytes(key_values[j]), 1), key_values, j + 1)

\* The hash of every tuple of KeyDomain, folded once.
HashOfKeyDomain ==
    { <<key_values, HashFold(FNV_OFFSET_BASIS, key_values, 1)>> :
         key_values \in KeyDomain }

hash_join_key(key_values) ==
    IF key_values \in KeyDomain
    THEN (CHOOSE p \in HashOfKeyDomain : p[1] = key_values)[2]
    ELSE HashFold(FNV_OFFSET_BASIS, key_values, 1)

(***************************************************************************)
(* keys_equal / values_equal                                               *)
(***************************************************************************)
\* values_equal with SQL's rule for NULL: Null equals nothing
values_equal_SqlNull(v1, v2) ==
    CASE v1.tag = "Integer" /\ v2.tag = "Integer" -> v1.i = v2.i
      [] v1.tag = "Float" /\ v2.tag = "Float" -> f64_eq(v1.bits, v2.bits)
      [] v1.tag = "Text" /\ v2.tag = "Text" -> v1.s = v2.s
      [] v1.tag = "Blob" /\ v2.tag = "Blob" -> v1.b = v2.b
      [] OTHER -> FALSE

values_equal(v1, v2) ==
    CASE v1.tag = "Null" /\ v2.tag = "Null" -> TRUE
      [] v1.tag = "Integer" /\ v2.tag = "Integer" -> v1.i = v2.i
      [] v1.tag = "Float" /\ v2.tag = "Float" -> f64_eq(v1.bits, v2.bits)
      [] v1.tag = "Text" /\ v2.tag = "Text" -> v1.s = v2.s
      [] v1.tag = "Blob" /\ v2.tag = "Blob" -> v1.b = v2.b
      [] OTHER -> FALSE

\* keys_equal that zips the two tuples and never compares their lengths
keys_equal_ZipOnly(key1, key2) ==
    \A j \in 1..(IF Len(key1) < Len(key2) THEN Len(key1) ELSE Len(key2)) :
        values_equal(key1[j], key2[j])

keys_equal(key1, key2) ==
    IF Len(key1) # Len(key2) THEN FALSE
    ELSE \A j \in 1..Len(key1) : values_equal(key1[j], key2[j])

(***************************************************************************)
(* HashEntry and HashBucket                                                *)
(***************************************************************************)
\* HashEntry::new ; row_data is an ImmutableRecord, known by its payload.
HashEntry(hash, key_values, row_data) ==
    [hash |-> hash, key_values |-> key_values, row_data |-> row_data]

ValueSize(v) ==
    CASE v.tag = "Null" -> 1
      [] v.tag = "Integer" -> 8
      [] v.tag = "Float" -> 8
      [] v.tag = "Text" -> Len(v.s)
      [] v.tag = "Blob" -> Len(v.b)

RECURSIVE KeySize(_, _)
KeySize(key_values, j) ==
    IF j > Len(key_values) THEN 0
    ELSE ValueSize(key_values[j]) + KeySize(key_values, j + 1)

\* size_bytes without the 8 bytes of the stored hash
size_bytes_NoHash(entry) == KeySize(entry.key_values, 1) + Len(entry.row_data.payload)

\* HashEntry::size_bytes
size_bytes(entry) == KeySize(entry.key_values, 1) + Len(entry.row_data.payload) + 8

RECURSIVE SumSizes(_, _)
SumSizes(entries, j) ==
    IF j > Len(entries) THEN 0 ELSE size_bytes(entries[j]) + SumSizes(entries, j + 1)

\* HashBucket::size_bytes
bucket_size_bytes(entries) == SumSizes(entries, 1)

\* the filter without its key comparison: the hash alone decides
EntryMatches_HashOnly(entry, hash, key_refs) == entry.hash = hash

\* the filter of probe, next_match and find_matches
EntryMatches(entry, hash, key_refs) ==
    entry.hash = hash /\ keys_equal(entry.key_values, key_refs)

\* find_matches filtered by key equality alone, without the hash
find_matches_KeyOnly(entries, hash, probe_keys) ==
    SelectSeq([j \in 1..Len(entries) |-> j - 1],
              LAMBDA idx : keys_equal(entries[idx + 1].key_values, probe_keys))

\* HashBucket::find_matches : the 0-based positions of all matches, in order
find_matches(entries, hash, probe_keys) ==
    SelectSeq([j \in 1..Len(entries) |-> j - 1],
              LAMBDA idx : EntryMatches(entries[idx + 1], hash, probe_keys))

(***************************************************************************)
(* Configurations                                                          *)
(***************************************************************************)
\* HashTableConfig values the table is constructed with.
Configs ==
    { [initial_buckets |-> 1, mem_budget |-> 26, num_keys |-> 1],
      [initial_buckets |-> 2, mem_budget |-> MaxBudget, num_keys |-> 2],
      [initial_buckets |-> 3, mem_budget |-> 18, num_keys |-> 1],
      [initial_buckets |-> 2, mem_budget |-> 7, num_keys |-> 1] }

(***************************************************************************)
(* HashTable                                                               *)
(***************************************************************************)
VARIABLES
    buckets,             \* Vec<HashBucket> : a sequence of entry sequences
    num_entries,
    mem_used,
    mem_budget,
    num_keys,
    spilled,
    state,               \* HashTableState
    temp_file,           \* Option<TempFile>
    probe_bucket_idx,    \* 0-based, as in the code
    probe_entry_idx,     \* 0-based, as in the code
    current_probe_keys,  \* Option<Vec<Value>> : <<>> is None, <<k>> is Some(k)
    op,                  \* the last call made on the table
    arg,                 \* the arguments of the last call that passed its assertion
    ret,                 \* its outcome
    inserted,            \* history: how often each key was inserted with success
    matched,             \* history: matches returned since the last probe call
    config               \* history: the HashTableConfig given to new

table == <<buckets, num_entries, mem_used, mem_budget, num_keys, spilled, state,
           temp_file, probe_bucket_idx, probe_entry_idx, current_probe_keys>>
cursor == <<probe_bucket_idx, probe_entry_idx, current_probe_keys>>
vars == <<table, op, arg, ret, inserted, matched, config>>

None == <<>>
Some(x) == <<x>>

NoArg == [key |-> None, row |-> None]
Outcome(kind, entry) == [kind |-> kind, entry |-> entry]
\* turso_assert! failed: the call panics before touching the table
Panic == Outcome("Panic", None)

\* HashTable::new
new(cfg) ==
    /\ buckets = [b \in 1..cfg.initial_buckets |-> <<>>]
    /\ num_entries = 0
    /\ mem_used = 0
    /\ mem_budget = cfg.mem_budget
    /\ num_keys = cfg.num_keys
    /\ spilled = FALSE
    /\ state = "Building"
    /\ temp_file = None
    /\ probe_bucket_idx = 0
    /\ probe_entry_idx = 0
    /\ current_probe_keys = None

Init ==
    /\ \E cfg \in Configs : new(cfg) /\ config = cfg
    /\ op = "new"
    /\ arg = NoArg
    /\ ret = Outcome("Unit", None)
    /\ inserted = [k \in KeyDomain |-> 0]
    /\ matched = 0

\* a failed assertion is fatal: nothing runs after it
Running == ret.kind # "Panic"

\* turso_assert!(condition, ...) : TRUE lets the call go on, FALSE panics
turso_assert(condition) == condition

\* assertions that let a call through in a state it is not made for
ProbeAssert_NotClosed == state # "Closed"
FinalizeAssert_Any == TRUE

\* the conditions the four gated operations assert
InsertAssert == state = "Building"
FinalizeAssert == state = "Building"
ProbeAssert == state = "Probing"
NextMatchAssert == state = "Probing"

\* the budget test made on what is used already, before the entry is added
BudgetExceeded_BeforeAdd(used, entry_size, budget, has_spilled) ==
    used > budget /\ ~has_spilled

\* the budget test with >= : an entry that fills the budget is rejected
BudgetExceeded_AtLimit(used, entry_size, budget, has_spilled) ==
    used + entry_size >= budget /\ ~has_spilled

\* the budget test of insert
BudgetExceeded(used, entry_size, budget, has_spilled) ==
    used + entry_size > budget /\ ~has_spilled

\* the bucket index taken from the lowest byte of the hash alone
BucketIndex_LowByte(hash, num_buckets) == hash[1] % num_buckets

\* the bucket index taken from the upper 32 bits of the hash
BucketIndex_HighWord(hash, num_buckets) ==
    HashMod(<<hash[5], hash[6], hash[7], hash[8], 0, 0, 0, 0>>, num_buckets)

\* (hash as usize) % self.buckets.len()
BucketIndex(hash, num_buckets) == HashMod(hash, num_buckets)

\* the mutation of insert without its memory accounting
InsertIntoBucket_NoMem(bucket_idx, entry, entry_size) ==
    /\ buckets' = [buckets EXCEPT ![bucket_idx + 1] = Append(@, entry)]
    /\ num_entries' = num_entries + 1
    /\ mem_used' = mem_used

\* the mutation of insert with the new entry put at the head of its chain
InsertIntoBucket_AtHead(bucket_idx, entry, entry_size) ==
    /\ buckets' = [buckets EXCEPT ![bucket_idx + 1] = <<entry>> \o @]
    /\ num_entries' = num_entries + 1
    /\ mem_used' = mem_used + entry_size

\* the mutation of insert with a bucket array that grows with the load
InsertIntoBucket_Resizing(bucket_idx, entry, entry_size) ==
    /\ buckets' = IF num_entries + 1 > Len(buckets)
                  THEN Append([buckets EXCEPT ![bucket_idx + 1] = Append(@, entry)], <<>>)
                  ELSE [buckets EXCEPT ![bucket_idx + 1] = Append(@, entry)]
    /\ num_entries' = num_entries + 1
    /\ mem_used' = mem_used + entry_size

\* the mutation of insert with a bucket that keeps its newest entry only
InsertIntoBucket_Overwrites(bucket_idx, entry, entry_size) ==
    /\ buckets' = [buckets EXCEPT ![bucket_idx + 1] = <<entry>>]
    /\ num_entries' = num_entries + 1
    /\ mem_used' = mem_used + entry_size

\* the mutation of insert once the budget test has passed
InsertIntoBucket(bucket_idx, entry, entry_size) ==
    /\ buckets' = [buckets EXCEPT ![bucket_idx + 1] = Append(@, entry)]
    /\ num_entries' = num_entries + 1
    /\ mem_used' = mem_used + entry_size

\* insert that counts the entry before it tests the budget
insert_CountsFirst(key_values, row_data) ==
    LET hash == hash_join_key(key_values)
        entry == HashEntry(hash, key_values, row_data)
        entry_size == size_bytes(entry)
        bucket_idx == BucketIndex(hash, Len(buckets))
    IN  /\ Running
        /\ config' = config
        /\ op' = "insert"
        /\ matched' = matched
        /\ IF ~turso_assert(InsertAssert)
           THEN /\ ret' = Panic
                /\ UNCHANGED <<table, arg, inserted>>
           ELSE IF BudgetExceeded(mem_used, entry_size, mem_budget, spilled)
           THEN /\ ret' = Outcome("Err", None)
                /\ arg' = [key |-> Some(key_values), row |-> Some(row_data)]
                /\ num_entries' = num_entries + 1
                /\ UNCHANGED <<buckets, mem_used, mem_budget, num_keys, spilled,
                               state, temp_file, cursor, inserted>>
           ELSE /\ InsertIntoBucket(bucket_idx, entry, entry_size)
                /\ ret' = Outcome("Done", None)
                /\ arg' = [key |-> Some(key_values), row |-> Some(row_data)]
                /\ inserted' = [inserted EXCEPT ![key_values] = @ + 1]
                /\ UNCHANGED <<mem_budget, num_keys, spilled, state, temp_file,
                               cursor>>

\* insert that spills when the budget is exceeded, and reports pending I/O
insert_Spills(key_values, row_data) ==
    LET hash == hash_join_key(key_values)
        entry == HashEntry(hash, key_values, row_data)
        entry_size == size_bytes(entry)
        bucket_idx == BucketIndex(hash, Len(buckets))
    IN  /\ Running
        /\ config' = config
        /\ op' = "insert"
        /\ matched' = matched
        /\ IF ~turso_assert(InsertAssert)
           THEN /\ ret' = Panic
                /\ UNCHANGED <<table, arg, inserted>>
           ELSE IF BudgetExceeded(mem_used, entry_size, mem_budget, spilled)
           THEN /\ ret' = Outcome("IO", None)
                /\ arg' = [key |-> Some(key_values), row |-> Some(row_data)]
                /\ spilled' = TRUE
                /\ state' = "Spilled"
                /\ UNCHANGED <<buckets, num_entries, mem_used, mem_budget,
                               num_keys, temp_file, cursor, inserted>>
           ELSE /\ InsertIntoBucket(bucket_idx, entry, entry_size)
                /\ ret' = Outcome("Done", None)
                /\ arg' = [key |-> Some(key_values), row |-> Some(row_data)]
                /\ inserted' = [inserted EXCEPT ![key_values] = @ + 1]
                /\ UNCHANGED <<mem_budget, num_keys, spilled, state, temp_file,
                               cursor>>

\* insert that closes the table when the budget is exceeded
insert_ErrCloses(key_values, row_data) ==
    LET hash == hash_join_key(key_values)
        entry == HashEntry(hash, key_values, row_data)
        entry_size == size_bytes(entry)
        bucket_idx == BucketIndex(hash, Len(buckets))
    IN  /\ Running
        /\ config' = config
        /\ op' = "insert"
        /\ matched' = matched
        /\ IF ~turso_assert(InsertAssert)
           THEN /\ ret' = Panic
                /\ UNCHANGED <<table, arg, inserted>>
           ELSE IF BudgetExceeded(mem_used, entry_size, mem_budget, spilled)
           THEN /\ ret' = Outcome("Err", None)
                /\ arg' = [key |-> Some(key_values), row |-> Some(row_data)]
                /\ state' = "Closed"
                /\ UNCHANGED <<buckets, num_entries, mem_used, mem_budget,
                               num_keys, spilled, temp_file, cursor, inserted>>
           ELSE /\ InsertIntoBucket(bucket_idx, entry, entry_size)
                /\ ret' = Outcome("Done", None)
                /\ arg' = [key |-> Some(key_values), row |-> Some(row_data)]
                /\ inserted' = [inserted EXCEPT ![key_values] = @ + 1]
                /\ UNCHANGED <<mem_budget, num_keys, spilled, state, temp_file,
                               cursor>>

\* HashTable::insert
insert(key_values, row_data) ==
    LET hash == hash_join_key(key_values)
        entry == HashEntry(hash, key_values, row_data)
        entry_size == size_bytes(entry)
        bucket_idx == BucketIndex(hash, Len(buckets))
    IN  /\ Running
        /\ config' = config
        /\ op' = "insert"
        /\ matched' = matched
        /\ IF ~turso_assert(InsertAssert)
           THEN /\ ret' = Panic
                /\ UNCHANGED <<table, arg, inserted>>
           ELSE IF BudgetExceeded(mem_used, entry_size, mem_budget, spilled)
           THEN /\ ret' = Outcome("Err", None)
                /\ arg' = [key |-> Some(key_values), row |-> Some(row_data)]
                /\ UNCHANGED <<table, inserted>>
           ELSE /\ InsertIntoBucket(bucket_idx, entry, entry_size)
                /\ ret' = Outcome("Done", None)
                /\ arg' = [key |-> Some(key_values), row |-> Some(row_data)]
                /\ inserted' = [inserted EXCEPT ![key_values] = @ + 1]
                /\ UNCHANGED <<mem_budget, num_keys, spilled, state, temp_file,
                               cursor>>

\* finalize_build that starts the accounting of the probe phase at zero
finalize_build_ZeroesMem ==
    /\ Running
    /\ config' = config
    /\ op' = "finalize_build"
    /\ arg' = NoArg
    /\ UNCHANGED <<inserted, matched>>
    /\ IF ~turso_assert(FinalizeAssert)
       THEN /\ ret' = Panic
            /\ UNCHANGED table
       ELSE /\ state' = "Probing"
            /\ ret' = Outcome("Unit", None)
            /\ mem_used' = 0
            /\ UNCHANGED <<buckets, num_entries, mem_budget, num_keys,
                           spilled, temp_file, cursor>>

\* HashTable::finalize_build
finalize_build ==
    /\ Running
    /\ config' = config
    /\ op' = "finalize_build"
    /\ arg' = NoArg
    /\ UNCHANGED <<inserted, matched>>
    /\ IF ~turso_assert(FinalizeAssert)
       THEN /\ ret' = Panic
            /\ UNCHANGED table
       ELSE /\ state' = "Probing"
            /\ ret' = Outcome("Unit", None)
            /\ UNCHANGED <<buckets, num_entries, mem_used, mem_budget, num_keys,
                           spilled, temp_file, cursor>>

\* the scan that takes the last match at or after start, not the first
ScanFrom_Last(entries, start, hash, key_refs) ==
    LET hits == { j \in start..(Len(entries) - 1) :
                    EntryMatches(entries[j + 1], hash, key_refs) }
    IN  IF hits = {} THEN Len(entries)
        ELSE CHOOSE j \in hits : \A i \in hits : i <= j

\* the scan loop started one entry late
ScanFrom_OffByOne(entries, start, hash, key_refs) ==
    LET hits == { j \in (start + 1)..(Len(entries) - 1) :
                     EntryMatches(entries[j + 1], hash, key_refs) }
    IN  IF hits = {} THEN Len(entries)
        ELSE CHOOSE j \in hits : \A i \in hits : j <= i

\* the scan loop of probe and next_match: the 0-based index of the first
\* entry at or after start that passes the filter, or Len(entries) if none
RECURSIVE ScanFrom(_, _, _, _)
ScanFrom(entries, start, hash, key_refs) ==
    IF start >= Len(entries) THEN Len(entries)
    ELSE IF EntryMatches(entries[start + 1], hash, key_refs) THEN start
    ELSE ScanFrom(entries, start + 1, hash, key_refs)

\* probe that keeps the probe keys of an earlier probe (get_or_insert)
probe_KeepsKeys(probe_keys) ==
    LET hash == hash_join_key(probe_keys)
        bucket_idx == BucketIndex(hash, Len(buckets))
        entries == buckets[bucket_idx + 1]
        idx == ScanFrom(entries, 0, hash, probe_keys)
        found == idx < Len(entries)
    IN  /\ Running
        /\ config' = config
        /\ op' = "probe"
        /\ inserted' = inserted
        /\ IF ~turso_assert(ProbeAssert)
           THEN /\ ret' = Panic
                /\ UNCHANGED <<table, arg, matched>>
           ELSE /\ arg' = [key |-> Some(probe_keys), row |-> None]
                /\ current_probe_keys' = IF current_probe_keys = None
                                       THEN Some(probe_keys)
                                       ELSE current_probe_keys
                /\ probe_bucket_idx' = bucket_idx
                /\ probe_entry_idx' = IF found THEN idx + 1 ELSE 0
                /\ ret' = IF found THEN Outcome("Some", Some(entries[idx + 1]))
                                   ELSE Outcome("None", None)
                /\ matched' = IF found THEN 1 ELSE 0
                /\ UNCHANGED <<buckets, num_entries, mem_used, mem_budget,
                               num_keys, spilled, state, temp_file>>

\* probe that writes the cursor only when it has found a match
probe_MissKeepsCursor(probe_keys) ==
    LET hash == hash_join_key(probe_keys)
        bucket_idx == BucketIndex(hash, Len(buckets))
        entries == buckets[bucket_idx + 1]
        idx == ScanFrom(entries, 0, hash, probe_keys)
        found == idx < Len(entries)
    IN  /\ Running
        /\ config' = config
        /\ op' = "probe"
        /\ inserted' = inserted
        /\ IF ~turso_assert(ProbeAssert)
           THEN /\ ret' = Panic
                /\ UNCHANGED <<table, arg, matched>>
           ELSE /\ arg' = [key |-> Some(probe_keys), row |-> None]
                /\ current_probe_keys' = IF found THEN Some(probe_keys)
                                                ELSE current_probe_keys
                /\ probe_bucket_idx' = IF found THEN bucket_idx ELSE probe_bucket_idx
                /\ probe_entry_idx' = IF found THEN idx + 1 ELSE probe_entry_idx
                /\ ret' = IF found THEN Outcome("Some", Some(entries[idx + 1]))
                                   ELSE Outcome("None", None)
                /\ matched' = IF found THEN 1 ELSE 0
                /\ UNCHANGED <<buckets, num_entries, mem_used, mem_budget,
                               num_keys, spilled, state, temp_file>>

\* probe that moves the cursor behind the scan also when nothing matched
probe_AdvancesOnMiss(probe_keys) ==
    LET hash == hash_join_key(probe_keys)
        bucket_idx == BucketIndex(hash, Len(buckets))
        entries == buckets[bucket_idx + 1]
        idx == ScanFrom(entries, 0, hash, probe_keys)
        found == idx < Len(entries)
    IN  /\ Running
        /\ config' = config
        /\ op' = "probe"
        /\ inserted' = inserted
        /\ IF ~turso_assert(ProbeAssert)
           THEN /\ ret' = Panic
                /\ UNCHANGED <<table, arg, matched>>
           ELSE /\ arg' = [key |-> Some(probe_keys), row |-> None]
                /\ current_probe_keys' = Some(probe_keys)
                /\ probe_bucket_idx' = bucket_idx
                /\ probe_entry_idx' = idx + 1
                /\ ret' = IF found THEN Outcome("Some", Some(entries[idx + 1]))
                                   ELSE Outcome("None", None)
                /\ matched' = IF found THEN 1 ELSE 0
                /\ UNCHANGED <<buckets, num_entries, mem_used, mem_budget,
                               num_keys, spilled, state, temp_file>>

\* HashTable::probe
probe(probe_keys) ==
    LET hash == hash_join_key(probe_keys)
        bucket_idx == BucketIndex(hash, Len(buckets))
        entries == buckets[bucket_idx + 1]
        idx == ScanFrom(entries, 0, hash, probe_keys)
        found == idx < Len(entries)
    IN  /\ Running
        /\ config' = config
        /\ op' = "probe"
        /\ inserted' = inserted
        /\ IF ~turso_assert(ProbeAssert)
           THEN /\ ret' = Panic
                /\ UNCHANGED <<table, arg, matched>>
           ELSE /\ arg' = [key |-> Some(probe_keys), row |-> None]
                /\ current_probe_keys' = Some(probe_keys)
                /\ probe_bucket_idx' = bucket_idx
                /\ probe_entry_idx' = IF found THEN idx + 1 ELSE 0
                /\ ret' = IF found THEN Outcome("Some", Some(entries[idx + 1]))
                                   ELSE Outcome("None", None)
                /\ matched' = IF found THEN 1 ELSE 0
                /\ UNCHANGED <<buckets, num_entries, mem_used, mem_budget,
                               num_keys, spilled, state, temp_file>>

\* next_match that rewinds the cursor when the chain is exhausted
next_match_Rewinds ==
    /\ Running
    /\ config' = config
    /\ op' = "next_match"
    /\ arg' = NoArg
    /\ inserted' = inserted
    /\ IF ~turso_assert(NextMatchAssert)
       THEN /\ ret' = Panic
            /\ UNCHANGED <<table, matched>>
       ELSE IF current_probe_keys = None
       THEN /\ ret' = Outcome("None", None)
            /\ UNCHANGED <<table, matched>>
       ELSE LET probe_keys == current_probe_keys[1]
                hash == hash_join_key(probe_keys)
                entries == buckets[probe_bucket_idx + 1]
                idx == ScanFrom(entries, probe_entry_idx, hash, probe_keys)
                found == idx < Len(entries)
            IN  /\ probe_entry_idx' = IF found THEN idx + 1 ELSE 0
                /\ ret' = IF found THEN Outcome("Some", Some(entries[idx + 1]))
                                   ELSE Outcome("None", None)
                /\ matched' = IF found THEN matched + 1 ELSE matched
                /\ UNCHANGED <<buckets, num_entries, mem_used, mem_budget,
                               num_keys, spilled, state, temp_file,
                               probe_bucket_idx, current_probe_keys>>

\* next_match that takes the entry it returns out of its chain
next_match_Consumes ==
    /\ Running
    /\ config' = config
    /\ op' = "next_match"
    /\ arg' = NoArg
    /\ inserted' = inserted
    /\ IF ~turso_assert(NextMatchAssert)
       THEN /\ ret' = Panic
            /\ UNCHANGED <<table, matched>>
       ELSE IF current_probe_keys = None
       THEN /\ ret' = Outcome("None", None)
            /\ UNCHANGED <<table, matched>>
       ELSE LET probe_keys == current_probe_keys[1]
                hash == hash_join_key(probe_keys)
                entries == buckets[probe_bucket_idx + 1]
                idx == ScanFrom(entries, probe_entry_idx, hash, probe_keys)
                found == idx < Len(entries)
            IN  /\ probe_entry_idx' = IF found THEN idx + 1 ELSE probe_entry_idx
                /\ ret' = IF found THEN Outcome("Some", Some(entries[idx + 1]))
                                   ELSE Outcome("None", None)
                /\ matched' = IF found THEN matched + 1 ELSE matched
                /\ buckets' = IF found
                              THEN [buckets EXCEPT ![probe_bucket_idx + 1] =
                                      SubSeq(@, 1, idx) \o SubSeq(@, idx + 2, Len(@))]
                              ELSE buckets
                /\ num_entries' = IF found THEN num_entries - 1 ELSE num_entries
                /\ UNCHANGED <<mem_used, mem_budget,
                               num_keys, spilled, state, temp_file,
                               probe_bucket_idx, current_probe_keys>>

\* next_match that, without probe keys, hands out the head of the chain
next_match_NoProbeGuard ==
    /\ Running
    /\ config' = config
    /\ op' = "next_match"
    /\ arg' = NoArg
    /\ inserted' = inserted
    /\ IF ~turso_assert(NextMatchAssert)
       THEN /\ ret' = Panic
            /\ UNCHANGED <<table, matched>>
       ELSE IF current_probe_keys = None
       THEN /\ ret' = IF buckets[probe_bucket_idx + 1] # <<>>
                      THEN Outcome("Some", Some(buckets[probe_bucket_idx + 1][1]))
                      ELSE Outcome("None", None)
            /\ UNCHANGED <<table, matched>>
       ELSE LET probe_keys == current_probe_keys[1]
                hash == hash_join_key(probe_keys)
                entries == buckets[probe_bucket_idx + 1]
                idx == ScanFrom(entries, probe_entry_idx, hash, probe_keys)
                found == idx < Len(entries)
            IN  /\ probe_entry_idx' = IF found THEN idx + 1 ELSE probe_entry_idx
                /\ ret' = IF found THEN Outcome("Some", Some(entries[idx + 1]))
                                   ELSE Outcome("None", None)
                /\ matched' = IF found THEN matched + 1 ELSE matched
                /\ UNCHANGED <<buckets, num_entries, mem_used, mem_budget,
                               num_keys, spilled, state, temp_file,
                               probe_bucket_idx, current_probe_keys>>

\* next_match that leaves the cursor on the match it returns
next_match_NoAdvance ==
    /\ Running
    /\ config' = config
    /\ op' = "next_match"
    /\ arg' = NoArg
    /\ inserted' = inserted
    /\ IF ~turso_assert(NextMatchAssert)
       THEN /\ ret' = Panic
            /\ UNCHANGED <<table, matched>>
       ELSE IF current_probe_keys = None
       THEN /\ ret' = Outcome("None", None)
            /\ UNCHANGED <<table, matched>>
       ELSE LET probe_keys == current_probe_keys[1]
                hash == hash_join_key(probe_keys)
                entries == buckets[probe_bucket_idx + 1]
                idx == ScanFrom(entries, probe_entry_idx, hash, probe_keys)
                found == idx < Len(entries)
            IN  /\ probe_entry_idx' = IF found THEN idx ELSE probe_entry_idx
                /\ ret' = IF found THEN Outcome("Some", Some(entries[idx + 1]))
                                   ELSE Outcome("None", None)
                /\ matched' = IF found THEN matched + 1 ELSE matched
                /\ UNCHANGED <<buckets, num_entries, mem_used, mem_budget,
                               num_keys, spilled, state, temp_file,
                               probe_bucket_idx, current_probe_keys>>

\* HashTable::next_match
next_match ==
    /\ Running
    /\ config' = config
    /\ op' = "next_match"
    /\ arg' = NoArg
    /\ inserted' = inserted
    /\ IF ~turso_assert(NextMatchAssert)
       THEN /\ ret' = Panic
            /\ UNCHANGED <<table, matched>>
       ELSE IF current_probe_keys = None
       THEN /\ ret' = Outcome("None", None)
            /\ UNCHANGED <<table, matched>>
       ELSE LET probe_keys == current_probe_keys[1]
                hash == hash_join_key(probe_keys)
                entries == buckets[probe_bucket_idx + 1]
                idx == ScanFrom(entries, probe_entry_idx, hash, probe_keys)
                found == idx < Len(entries)
            IN  /\ probe_entry_idx' = IF found THEN idx + 1 ELSE probe_entry_idx
                /\ ret' = IF found THEN Outcome("Some", Some(entries[idx + 1]))
                                   ELSE Outcome("None", None)
                /\ matched' = IF found THEN matched + 1 ELSE matched
                /\ UNCHANGED <<buckets, num_entries, mem_used, mem_budget,
                               num_keys, spilled, state, temp_file,
                               probe_bucket_idx, current_probe_keys>>

\* close that forgets to zero the counters
close_KeepsCounters ==
    /\ Running
    /\ config' = config
    /\ op' = "close"
    /\ arg' = NoArg
    /\ ret' = Outcome("Unit", None)
    /\ state' = "Closed"
    /\ buckets' = <<>>
    /\ temp_file' = None
    /\ UNCHANGED <<num_entries, mem_used, mem_budget, num_keys, spilled, cursor,
                   inserted, matched>>

\* HashTable::close
close ==
    /\ Running
    /\ config' = config
    /\ op' = "close"
    /\ arg' = NoArg
    /\ ret' = Outcome("Unit", None)
    /\ state' = "Closed"
    /\ buckets' = <<>>
    /\ num_entries' = 0
    /\ mem_used' = 0
    /\ temp_file' = None
    /\ UNCHANGED <<mem_budget, num_keys, spilled, cursor, inserted, matched>>

\* HashTable::is_empty
is_empty == num_entries = 0

RECURSIVE MaxChain(_)
RECURSIVE TotalChain(_)

\* the length of the last chain taken for the longest
MaxChain_Last(b) == IF b = 0 THEN 0 ELSE Len(buckets[b])

\* HashTable::stats: a read of the table through &self.  The chain lengths
\* are taken bucket by bucket; the average is kept as the fraction
\* <<total_chain_length, num_non_empty>> that the code divides as f64.
MaxChain(b) ==
    IF b = 0 THEN 0
    ELSE LET rest == MaxChain(b - 1)
             chain_len == Len(buckets[b])
         IN  IF chain_len > rest THEN chain_len ELSE rest

TotalChain(b) == IF b = 0 THEN 0 ELSE Len(buckets[b]) + TotalChain(b - 1)

stats ==
    LET num_empty_buckets == Cardinality({ b \in 1..Len(buckets) : Len(buckets[b]) = 0 })
        total_chain_length == TotalChain(Len(buckets))
        num_non_empty == Len(buckets) - num_empty_buckets
    IN  [ num_buckets       |-> Len(buckets),
          num_entries       |-> num_entries,
          mem_used          |-> mem_used,
          mem_budget        |-> mem_budget,
          spilled           |-> spilled,
          max_chain_length  |-> MaxChain(Len(buckets)),
          avg_chain_length  |-> IF num_non_empty > 0
                                THEN <<total_chain_length, num_non_empty>>
                                ELSE <<0, 1>>,
          num_empty_buckets |-> num_empty_buckets ]

\* a call of stats that asserts the table is not Closed
Call_stats_NotClosed ==
    /\ Running
    /\ op' = "stats"
    /\ arg' = NoArg
    /\ ret' = IF turso_assert(state # "Closed") THEN Outcome("Stats", Some(stats))
                                                ELSE Panic
    /\ UNCHANGED <<table, inserted, matched, config>>

\* a call of stats: it asserts nothing, returns the snapshot and, taking
\* &self, writes no field of the table
Call_stats ==
    /\ Running
    /\ op' = "stats"
    /\ arg' = NoArg
    /\ ret' = Outcome("Stats", Some(stats))
    /\ UNCHANGED <<table, inserted, matched, config>>

Next ==
    \/ \E key_values \in KeyDomain, row_data \in RowDomain :
          insert(key_values, row_data)
    \/ finalize_build
    \/ \E probe_keys \in KeyDomain : probe(probe_keys)
    \/ next_match
    \/ close
    \/ Call_stats

Spec == Init /\ [][Next]_vars

(***************************************************************************)
(* hash_join_key and keys_equal on their own: the two functions applied to *)
(* a pair of key tuples, apart from any table.                             *)
(***************************************************************************)
\* Key tuples given to the two functions: the tuples of KeyDomain and, with
\* them, the empty tuple, tuples of different lengths with a common prefix,
\* a negative Integer, Integer 1 beside Float 1.0, Text beside Blob of the
\* same bytes, a Null beside another value and the text "foobar".
TupleDomain ==
    KeyDomain \cup
    { <<>>, <<Integer(-1)>>, <<Integer(0), Null>>,
      <<Float(F64One)>>, <<Text(<<97>>)>>, <<Blob(<<97>>)>>,
      <<Null, Integer(1)>>, <<Text(<<102, 111, 111, 98, 97, 114>>)>> }

\* the pair of tuples the functions are applied to
KeysInit ==
    /\ \E cfg \in Configs : cfg.initial_buckets = 1 /\ new(cfg) /\ config = cfg
    /\ op = "new"
    /\ arg \in { [key1 |-> a, key2 |-> b] : a \in TupleDomain, b \in TupleDomain }
    /\ ret = Outcome("Unit", None)
    /\ inserted = [k \in KeyDomain |-> 0]
    /\ matched = 0

\* hash_join_key(key1)
Call_hash_join_key ==
    /\ op' = "hash_join_key"
    /\ ret' = [kind |-> "Hash", hash |-> hash_join_key(arg.key1)]
    /\ UNCHANGED <<table, arg, inserted, matched, config>>

\* keys_equal(key1, key2)
Call_keys_equal ==
    /\ op' = "keys_equal"
    /\ ret' = [kind |-> "Bool", equal |-> keys_equal(arg.key1, arg.key2)]
    /\ UNCHANGED <<table, arg, inserted, matched, config>>

NextKeys ==
    \/ Call_hash_join_key
    \/ Call_keys_equal

SpecKeys == KeysInit /\ [][NextKeys]_vars

(***************************************************************************)
(* Vocabulary of the properties                                            *)
(***************************************************************************)
ProbeStep == op \in {"probe", "next_match"}
Returned == ret.entry[1]
ProbedKey == current_probe_keys[1]

\* a Float NaN somewhere in the tuple
HasNaN(key_values) ==
    \E j \in 1..Len(key_values) :
        key_values[j].tag = "Float" /\ F64IsNaN(key_values[j].bits)

\* positional, type-wise equality of two tuples, stated without keys_equal
TypewiseEqual(key1, key2) ==
    /\ Len(key1) = Len(key2)
    /\ \A j \in 1..Len(key1) :
          /\ key1[j].tag = key2[j].tag
          /\ key1[j].tag = "Integer" => key1[j].i = key2[j].i
          /\ key1[j].tag = "Text" => key1[j].s = key2[j].s
          /\ key1[j].tag = "Blob" => key1[j].b = key2[j].b
          /\ key1[j].tag = "Float" =>
                /\ ~F64IsNaN(key1[j].bits)
                /\ ~F64IsNaN(key2[j].bits)
                /\ \/ key1[j].bits = key2[j].bits
                   \/ F64IsZero(key1[j].bits) /\ F64IsZero(key2[j].bits)

\* the keys inserted so far that have the hash of key_values and that the
\* comparator deems equal to it
EqualInserted(key_values) ==
    { k \in KeyDomain :
        /\ inserted[k] > 0
        /\ hash_join_key(k) = hash_join_key(key_values)
        /\ TypewiseEqual(k, key_values) }

\* all resident entries, as (bucket, position) pairs, both 1-based
Resident == { <<b, j>> \in (1..Len(buckets)) \X (1..num_entries) : j <= Len(buckets[b]) }

RECURSIVE SumBuckets(_)
SumBuckets(b) == IF b = 0 THEN 0 ELSE bucket_size_bytes(buckets[b]) + SumBuckets(b - 1)

\* the data of the table, as opposed to its probe cursor
data == <<buckets, num_entries, mem_used, mem_budget, num_keys, spilled, state, temp_file>>

(***************************************************************************)
(* C1  A key that was inserted is found.                                   *)
(***************************************************************************)
\* C1 as claimed: after finalize_build, probe(key) of any key that was
\* inserted with success returns an entry whose key equals the probed key.
C1_ProbeFindsEveryInsertedKey ==
    (op = "probe" /\ Running /\ inserted[ProbedKey] > 0)
        => (ret.kind = "Some" /\ TypewiseEqual(Returned.key_values, ProbedKey))

\* C1 amended: the same for every key that holds no Float NaN; a NaN is
\* unequal to itself, so a key holding one is never found.
C1_ProbeFindsInsertedKey ==
    (op = "probe" /\ Running /\ inserted[ProbedKey] > 0)
        => IF HasNaN(ProbedKey)
           THEN ret.kind = "None"
           ELSE ret.kind = "Some" /\ TypewiseEqual(Returned.key_values, ProbedKey)

\* the probed key was inserted behind an entry of the same hash and another key
C1_Witness ==
    /\ op = "probe" /\ ret.kind = "Some" /\ inserted[ProbedKey] > 0
    /\ probe_entry_idx >= 2
    /\ buckets[probe_bucket_idx + 1][1].hash = Returned.hash

(***************************************************************************)
(* C2  K inserts of a key give K matches, then exhaustion.                 *)
(***************************************************************************)
\* C2 as claimed: a probe sequence on a key inserted K times signals
\* exhaustion only after exactly K matches, and never returns more than K.
C2_ExactlyKMatchesAnyKey ==
    (state = "Probing" /\ ProbeStep /\ Running /\ current_probe_keys # None)
        => /\ ret.kind = "None" => matched = inserted[ProbedKey]
           /\ ret.kind = "Some" => matched <= inserted[ProbedKey]

\* C2 amended: the same for a key that holds no Float NaN, when no other
\* inserted key has its hash and compares equal to it; a key holding a NaN
\* gives no match.
C2_ExactlyKMatches ==
    (state = "Probing" /\ ProbeStep /\ Running /\ current_probe_keys # None)
        => IF HasNaN(ProbedKey)
           THEN ret.kind = "None" /\ matched = 0
           ELSE EqualInserted(ProbedKey) \subseteq {ProbedKey}
                => /\ ret.kind = "None" => matched = inserted[ProbedKey]
                   /\ ret.kind = "Some" => matched <= inserted[ProbedKey]

\* exhaustion after three matches of a key inserted three times among others
C2_Witness ==
    /\ op = "next_match" /\ ret.kind = "None" /\ state = "Probing"
    /\ matched = 3 /\ inserted[ProbedKey] = 3
    /\ \E k \in KeyDomain : k # ProbedKey /\ inserted[k] > 0

(***************************************************************************)
(* C3  Only entries of the probed hash and key are returned.               *)
(***************************************************************************)
\* the resident entries that have the hash of the probed key and a key
\* positionally and type-wise equal to it
TrueMatches ==
    { p \in Resident :
        /\ buckets[p[1]][p[2]].hash = hash_join_key(ProbedKey)
        /\ TypewiseEqual(buckets[p[1]][p[2]].key_values, ProbedKey) }

\* C3: an entry returned by probe or next_match has the hash of the probed
\* key and a key positionally, type-wise equal to it, so an entry that only
\* collides with the probed key is never returned; and when the scan signals
\* exhaustion, every resident entry with that hash and key has been returned.
C3_ReturnedIffHashAndKeyEqual ==
    (state = "Probing" /\ ProbeStep /\ Running /\ current_probe_keys # None)
        => /\ ret.kind = "Some" =>
                /\ Returned.hash = hash_join_key(ProbedKey)
                /\ TypewiseEqual(Returned.key_values, ProbedKey)
                /\ Returned = buckets[probe_bucket_idx + 1][probe_entry_idx]
                /\ matched <= Cardinality(TrueMatches)
           /\ ret.kind = "None" => matched = Cardinality(TrueMatches)

\* a match was returned past an entry of the same hash and another key
C3_Witness ==
    /\ state = "Probing" /\ ProbeStep /\ ret.kind = "Some"
    /\ \E j \in 1..(probe_entry_idx - 1) :
          LET e == buckets[probe_bucket_idx + 1][j]
          IN  e.hash = Returned.hash /\ ~TypewiseEqual(e.key_values, ProbedKey)

(***************************************************************************)
(* C4  The budget test of insert.                                          *)
(***************************************************************************)
InsertStep == op' = "insert" /\ state = "Building" /\ vars' # vars
ArgSize == size_bytes(HashEntry(hash_join_key(arg.key[1]), arg.key[1], arg.row[1]))

C5_InsertAllOrNothing ==
    [][InsertStep =>
         /\ ret'.kind = "Err" => table' = table
         /\ ret'.kind = "Done" =>
              /\ Len(buckets') = Len(buckets)
              /\ \E b \in 1..Len(buckets) :
                    /\ Len(buckets'[b]) = Len(buckets[b]) + 1
                    /\ SubSeq(buckets'[b], 1, Len(buckets[b])) = buckets[b]
                    /\ buckets'[b][Len(buckets'[b])].key_values = arg'.key[1]
                    /\ buckets'[b][Len(buckets'[b])].row_data = arg'.row[1]
                    /\ \A c \in 1..Len(buckets) : c # b => buckets'[c] = buckets[c]
              /\ num_entries' = num_entries + 1
              /\ mem_used' = mem_used + ArgSize'
              /\ <<mem_budget, num_keys, spilled, state, temp_file, cursor>>'
                   = <<mem_budget, num_keys, spilled, state, temp_file, cursor>>
      ]_vars

\* an insert was rejected by a table that already holds entries
C5_Witness ==
    /\ op = "insert" /\ ret.kind = "Err" /\ state = "Building"
    /\ num_entries >= 2 /\ mem_used < mem_budget

(***************************************************************************)
(* C6  Probing a key that was never inserted.                              *)
(***************************************************************************)
ProbeCall == op' = "probe" /\ state = "Probing" /\ vars' # vars

\* C6 as claimed: probe of a key that was never inserted returns no match
\* and leaves every field of the table, cursor included, as it was.
C6_ProbeMissChangesNothing ==
    [][(ProbeCall /\ inserted[arg'.key[1]] = 0)
          => ret'.kind = "None" /\ table' = table]_vars

\* C6 amended: probe of a key that was never inserted, and that no inserted
\* key of the same hash compares equal to, returns no match and leaves the
\* data of the table (buckets, counters, budget, spilled flag, lifecycle
\* state) as it was; the cursor is reset to that key: its bucket, entry
\* index 0, the key cached.
C6_ProbeMissChangesOnlyCursor ==
    [][(ProbeCall /\ inserted[arg'.key[1]] = 0 /\ EqualInserted(arg'.key[1]) = {})
          => /\ ret'.kind = "None"
             /\ data' = data
             /\ current_probe_keys' = Some(arg'.key[1])
             /\ probe_entry_idx' = 0
             /\ probe_bucket_idx' =
                   HashMod(hash_join_key(arg'.key[1]), Len(buckets))]_vars

\* a miss in a bucket that holds an entry with the hash of the probed key
C6_Witness ==
    /\ op = "probe" /\ ret.kind = "None" /\ inserted[ProbedKey] = 0
    /\ \E j \in 1..Len(buckets[probe_bucket_idx + 1]) :
          buckets[probe_bucket_idx + 1][j].hash = hash_join_key(ProbedKey)

(***************************************************************************)
(* C7  Calls outside their lifecycle state.                                *)
(***************************************************************************)
\* C7: probe or next_match outside Probing, and insert outside Building,
\* panic on their assertion and do nothing else; and a call that panics has
\* changed nothing.
C7_WrongStateIsStateViolation ==
    [][vars' # vars =>
         /\ (op' = "insert" /\ state # "Building") => ret' = Panic
         /\ (op' \in {"probe", "next_match"} /\ state # "Probing") => ret' = Panic
         /\ (op' = "insert" /\ state = "Building") => ret' # Panic
         /\ (op' \in {"probe", "next_match"} /\ state = "Probing") => ret' # Panic
         /\ ret' = Panic =>
               /\ table' = table
               /\ inserted' = inserted
               /\ matched' = matched
      ]_vars

\* probe was called on a table with entries before finalize_build
C7_Witness ==
    /\ op = "probe" /\ ret = Panic /\ state = "Building" /\ num_entries > 0

(***************************************************************************)
(* C8  The lifecycle is one-way.                                           *)
(***************************************************************************)
\* C8: the table starts in Building; it leaves Building only by
\* finalize_build, to Probing, or by close, to Closed; it leaves Probing only
\* by close, to Closed; it never leaves Closed, where insert,
\* finalize_build, probe and next_match are state violations.
C8_LifecycleOneWay ==
    /\ state = "Building"
    /\ [][vars' # vars =>
            /\ state = "Building" =>
                  \/ state' = "Building" /\ op' \notin {"finalize_build", "close"}
                  \/ state' = "Probing" /\ op' = "finalize_build"
                  \/ state' = "Closed" /\ op' = "close"
            /\ state = "Probing" =>
                  \/ state' = "Probing" /\ op' # "close"
                  \/ state' = "Closed" /\ op' = "close"
            /\ state = "Closed" =>
                  /\ state' = "Closed"
                  /\ op' \in {"insert", "finalize_build", "probe", "next_match"} =>
                        ret' = Panic
         ]_vars

\* the table was closed after it had been probed
C8_Witness ==
    /\ state = "Closed" /\ op = "close" /\ current_probe_keys # None

(***************************************************************************)
(* C9  close                                                               *)
(***************************************************************************)
\* C9: close succeeds in every state and leaves the table Closed, empty,
\* with num_entries = 0 and mem_used = 0; a second close changes nothing.
C9_CloseIdempotent ==
    /\ [](state = "Closed" => is_empty /\ num_entries = 0 /\ mem_used = 0)
    /\ [][op' = "close" =>
            /\ ret' # Panic
            /\ state' = "Closed"
            /\ state = "Closed" => table' = table
         ]_vars

\* a table that held entries and was probed is closed
C9_Witness ==
    /\ state = "Closed" /\ current_probe_keys # None /\ matched > 0
    /\ \E k \in KeyDomain : inserted[k] >= 2

(***************************************************************************)
(* C10  mem_used is the size of the resident entries.                      *)
(***************************************************************************)
\* C10: mem_used is the sum of size_bytes over the resident entries; it
\* changes only by a successful insert, or by close, which sets it to 0 and
\* removes all entries.
C10_MemUsedIsSumOfSizes ==
    /\ [](mem_used = SumBuckets(Len(buckets)))
    /\ [][mem_used' # mem_used =>
            \/ op' = "insert" /\ ret'.kind = "Done" /\ mem_used' > mem_used
            \/ op' = "close" /\ mem_used' = 0 /\ Resident' = {}
         ]_vars

\* entries of different sizes are resident in two buckets
C10_Witness ==
    /\ state = "Probing" /\ num_entries >= 3
    /\ Cardinality({ b \in 1..Len(buckets) : buckets[b] # <<>> }) >= 2
    /\ \E p, q \in Resident :
          size_bytes(buckets[p[1]][p[2]]) # size_bytes(buckets[q[1]][q[2]])

(***************************************************************************)
(* C11  Every entry lies in the bucket its hash selects.                   *)
(***************************************************************************)
\* C11: every entry held by a bucket is held by the bucket whose index is
\* the hash of the entry's key tuple modulo the number of buckets, and the
\* hash cached in the entry is the hash of its own key tuple.
C11_EntryInBucketOfItsHash ==
    \A b \in 1..Len(buckets) : \A j \in 1..Len(buckets[b]) :
        LET entry == buckets[b][j]
            h == HashFold(FNV_OFFSET_BASIS, entry.key_values, 1)
        IN  /\ entry.hash = h
            /\ b - 1 = HashMod(h, Len(buckets))

\* two buckets filled, one of them with a chain of different keys
C11_Witness ==
    /\ state = "Probing"
    /\ Len(buckets) = 2
    /\ Len(buckets[1]) >= 1
    /\ Len(buckets[2]) >= 2
    /\ buckets[2][1].key_values # buckets[2][2].key_values

(***************************************************************************)
(* C12  Until close, buckets only grow at their tail.                      *)
(***************************************************************************)
\* C12: no step other than close removes an entry, changes the hash, key or
\* row of an entry, or moves it to another bucket or position: the bucket
\* array keeps its length and every bucket before the step is a prefix of
\* the same bucket after it.
C12_EntriesAppendOnly ==
    [][ op' # "close" =>
          /\ Len(buckets') = Len(buckets)
          /\ \A b \in 1..Len(buckets) :
                /\ Len(buckets'[b]) >= Len(buckets[b])
                /\ SubSeq(buckets'[b], 1, Len(buckets[b])) = buckets[b] ]_vars

\* an insert has just put its entry behind two entries of other keys
C12_Witness ==
    /\ op = "insert"
    /\ ret.kind = "Done"
    /\ \E b \in 1..Len(buckets) :
          /\ Len(buckets[b]) = 3
          /\ buckets[b][3].key_values = arg.key[1]
          /\ buckets[b][1].key_values # arg.key[1]
          /\ buckets[b][2].key_values # arg.key[1]

(***************************************************************************)
(* C13  The number of buckets.                                             *)
(***************************************************************************)
\* C13 as claimed: in every state after new(config), the states after close
\* included, stats().num_buckets equals config.initial_buckets.
C13_BucketCountFixedForever == stats.num_buckets = config.initial_buckets

\* C13: in every state after new(config) and before close,
\* stats().num_buckets equals config.initial_buckets; close empties the
\* bucket array, and from then on stats().num_buckets is 0.
C13_BucketCountFixedUntilClose ==
    stats.num_buckets = IF state = "Closed" THEN 0 ELSE config.initial_buckets

\* a table of two buckets that holds a chain of three entries
C13_Witness ==
    /\ state = "Probing"
    /\ config.initial_buckets = 2
    /\ stats.num_buckets = 2
    /\ stats.max_chain_length >= 3

(***************************************************************************)
(* C14  Tuples the comparator deems equal hash alike.                      *)
(***************************************************************************)
\* C14: for every pair of key tuples a, b with keys_equal(a, b) true,
\* hash_join_key(a) = hash_join_key(b); Floats that are == with different
\* bit patterns, +0.0 and -0.0, are such a pair.
C14_EqualKeysHashAlike ==
    (op = "keys_equal" /\ ret.equal) =>
        hash_join_key(arg.key1) = hash_join_key(arg.key2)

(***************************************************************************)
(* C15  keys_equal is positional equality of values of the same type.      *)
(***************************************************************************)
\* equality of two values as C15 states it: the same type tag and, for
\* Integer, Text and Blob, the same number or the same bytes
SameTypeAndValue(v1, v2) ==
    /\ v1.tag = v2.tag
    /\ v1.tag = "Integer" => v1.i = v2.i
    /\ v1.tag = "Text" => v1.s = v2.s
    /\ v1.tag = "Blob" => v1.b = v2.b
    /\ v1.tag = "Float" => f64_eq(v1.bits, v2.bits)

\* C15: keys_equal(a, b) is false when the tuples differ in length, and is
\* otherwise the conjunction over the positions of the equality of the two
\* values: exact for Integer, byte by byte for Text and Blob, and false for
\* any two values of different type tags.
C15_KeysEqualIsTypewise ==
    op = "keys_equal" =>
        LET key1 == arg.key1
            key2 == arg.key2
        IN  /\ Len(key1) # Len(key2) => ~ret.equal
            /\ Len(key1) = Len(key2) =>
                  (ret.equal <=>
                      \A j \in 1..Len(key1) : SameTypeAndValue(key1[j], key2[j]))
            /\ (\E j \in 1..Len(key1) :
                    j <= Len(key2) /\ key1[j].tag # key2[j].tag) => ~ret.equal

\* keys_equal has refused a tuple and its own prefix
C15_Witness ==
    /\ op = "keys_equal"
    /\ ~ret.equal
    /\ arg.key1 = <<Integer(0)>>
    /\ arg.key2 = <<Integer(0), Null>>

(***************************************************************************)
(* C16  Null matches Null.                                                 *)
(***************************************************************************)
\* C16: a key with a Null that was inserted is matched by a probe key with
\* Null in the same position: after insert([Null]), probe([Null]) returns
\* an entry, and every entry probe or next_match returns for a probe key
\* with a Null has Null in that position.
C16_NullMatchesNull ==
    /\ (op = "probe" /\ ret.kind # "Panic" /\ arg.key[1] = <<Null>>
            /\ inserted[<<Null>>] > 0) =>
           (ret.kind = "Some" /\ Returned.key_values = <<Null>>)
    /\ (ProbeStep /\ ret.kind = "Some") =>
           \A j \in 1..Len(ProbedKey) :
               ProbedKey[j].tag = "Null" => Returned.key_values[j].tag = "Null"

\* probe([Null]) has walked past a Blob of the same hash to the Null entry
C16_Witness ==
    /\ op = "probe"
    /\ ret.kind = "Some"
    /\ arg.key[1] = <<Null>>
    /\ Returned.key_values = <<Null>>
    /\ inserted[<<Blob(<<0>>)>>] > 0
    /\ probe_entry_idx >= 2

(***************************************************************************)
(* C17  hash_join_key is FNV-1a over the canonical bytes of the tuple.     *)
(***************************************************************************)
\* The reference: 64-bit FNV-1a, written apart from the arithmetic of the
\* model.  XOR is taken bit by bit; the product by 0x100000001b3 is
\* h * 0x1b3 + h * 2^40, added byte by byte with the carry, cut at 8 bytes.
RefOffsetBasis == <<37, 35, 34, 132, 228, 156, 242, 203>>

RefBit(n, i) == (n \div (2 ^ i)) % 2

RECURSIVE RefXorFrom(_, _, _)
RefXorFrom(x, y, i) ==
    IF i > 7 THEN 0
    ELSE (2 ^ i) * ((RefBit(x, i) + RefBit(y, i)) % 2) + RefXorFrom(x, y, i + 1)

RECURSIVE RefMulPrime(_, _, _)
RefMulPrime(h, j, carry) ==
    IF j > 8 THEN <<>>
    ELSE LET t == h[j] * 435 + (IF j > 5 THEN h[j - 5] ELSE 0) + carry
         IN  <<t % 256>> \o RefMulPrime(h, j + 1, t \div 256)

RECURSIVE RefFnv1a(_, _, _)
RefFnv1a(h, bytes, j) ==
    IF j > Len(bytes) THEN h
    ELSE RefFnv1a(RefMulPrime([h EXCEPT ![1] = RefXorFrom(h[1], bytes[j], 0)], 1, 0),
                  bytes, j + 1)

\* the canonical encoding of a value and of a tuple
RefEncode(v) ==
    CASE v.tag = "Null" -> <<0>>
      [] v.tag = "Integer" ->
            [j \in 1..8 |-> IF j <= 4 THEN (v.i \div (256 ^ (j - 1))) % 256
                            ELSE IF v.i < 0 THEN 255 ELSE 0]
      [] v.tag = "Float" -> v.bits
      [] v.tag = "Text" -> v.s
      [] v.tag = "Blob" -> v.b

RECURSIVE RefConcat(_, _)
RefConcat(key_values, j) ==
    IF j > Len(key_values) THEN <<>>
    ELSE RefEncode(key_values[j]) \o RefConcat(key_values, j + 1)

\* C17: hash_join_key(t) is the FNV-1a fold, seeded with
\* 0xcbf29ce484222325 and multiplying by 0x100000001b3 modulo 2^64 after
\* the XOR of each byte, over the concatenation of the encodings of t's
\* values (one zero byte for Null, the 8 little-endian bytes of Integer and
\* Float, the bytes of Text and Blob); the empty tuple hashes to the offset
\* basis, and the texts "a" and "foobar" to the published FNV-1a values.
C17_HashIsFnv1aOfEncoding ==
    op = "hash_join_key" =>
        /\ ret.hash = RefFnv1a(RefOffsetBasis, RefConcat(arg.key1, 1), 1)
        /\ arg.key1 = <<>> => ret.hash = RefOffsetBasis
        /\ arg.key1 = <<Text(<<97>>)>> =>
              ret.hash = <<140, 236, 1, 134, 76, 220, 99, 175>>
        /\ arg.key1 = <<Text(<<102, 111, 111, 98, 97, 114>>)>> =>
              ret.hash = <<232, 103, 57, 247, 113, 65, 148, 133>>

\* a tuple of two values, a Null and an Integer, has been hashed
C17_Witness ==
    /\ op = "hash_join_key"
    /\ arg.key1 = <<Null, Integer(1)>>
    /\ ret.hash = <<158, 223, 160, 25, 49, 187, 9, 199>>

(***************************************************************************)
(* C18  The one cursor belongs to the last probe.                          *)
(***************************************************************************)
\* the chain the cursor points into, and the entries of it that match the
\* cursor's keys: same hash and type-wise equal key
CursorChain == buckets[probe_bucket_idx + 1]

MatchesIn(chain, key_values) ==
    { j \in 1..Len(chain) :
        /\ chain[j].hash = hash_join_key(key_values)
        /\ TypewiseEqual(chain[j].key_values, key_values) }

ChainMatches == MatchesIn(CursorChain, ProbedKey)

\* C18: a probe(B) takes the cursor over whatever an earlier probe(A) left
\* of its matches: after it the cursor holds B, B's bucket and the position
\* behind B's first match, and every next_match that returns an entry
\* keeps the cursor's keys and bucket and returns the next entry of that
\* chain, behind the cursor, whose key equals the cursor's keys.
C18_CursorServesLastProbe ==
    [][ /\ (op' = "probe" /\ ret'.kind # "Panic") =>
              LET B == arg'.key[1]
                  chain == buckets[probe_bucket_idx' + 1]
              IN  /\ current_probe_keys' = Some(B)
                  /\ probe_bucket_idx' =
                        HashMod(hash_join_key(B), Len(buckets))
                  /\ ret'.kind = "Some" =>
                        /\ probe_entry_idx' \in MatchesIn(chain, B)
                        /\ \A j \in MatchesIn(chain, B) : j >= probe_entry_idx'
                        /\ ret'.entry[1] = chain[probe_entry_idx']
                  /\ ret'.kind = "None" => probe_entry_idx' = 0
        /\ (op' = "next_match" /\ ret'.kind = "Some") =>
              /\ current_probe_keys # None
              /\ current_probe_keys' = current_probe_keys
              /\ probe_bucket_idx' = probe_bucket_idx
              /\ probe_entry_idx' > probe_entry_idx
              /\ probe_entry_idx' \in ChainMatches
              /\ \A j \in ChainMatches : j <= probe_entry_idx \/ j >= probe_entry_idx'
              /\ ret'.entry[1] = CursorChain[probe_entry_idx']
      ]_vars

\* next_match has returned the second entry of the probed key and has
\* walked past an entry of another key, inserted twice, to reach it
C18_Witness ==
    /\ op = "next_match"
    /\ ret.kind = "Some"
    /\ matched = 2
    /\ \E j \in 1..(probe_entry_idx - 1) :
          /\ CursorChain[j].key_values # ProbedKey
          /\ inserted[CursorChain[j].key_values] >= 2
          /\ \E i \in 1..(j - 1) : CursorChain[i].key_values = ProbedKey

(***************************************************************************)
(* C19  Exhaustion is sticky.                                              *)
(***************************************************************************)
\* C19: once next_match has returned None for the current probe, nothing
\* behind the cursor matches the probed key, and a further next_match
\* returns None again and leaves the cursor as it is.
C19_ExhaustionSticky ==
    /\ [](  (op = "next_match" /\ ret.kind = "None" /\ current_probe_keys # None) =>
               \A j \in ChainMatches : j <= probe_entry_idx )
    /\ [][ (op = "next_match" /\ ret.kind = "None" /\ op' = "next_match") =>
               (ret'.kind = "None" /\ cursor' = cursor) ]_vars

\* the chain was exhausted after two matches, with entries of other keys
\* behind the last match
C19_Witness ==
    /\ op = "next_match"
    /\ ret.kind = "None"
    /\ matched >= 2
    /\ probe_entry_idx < Len(CursorChain)

(***************************************************************************)
(* C20  After a probe without a match next_match returns nothing.          *)
(***************************************************************************)
\* C20: next_match returns an entry only when the last probe returned one;
\* the next_match that follows a probe that found no match returns None.
C20_NoMatchAfterProbeMiss ==
    /\ []( (op = "next_match" /\ ret.kind = "Some") => matched >= 2 )
    /\ [][ (op = "probe" /\ ret.kind = "None" /\ op' = "next_match") =>
               ret'.kind = "None" ]_vars

\* next_match after a probe that found nothing in a chain that is not
\* empty and holds a key inserted twice
C20_Witness ==
    /\ op = "next_match"
    /\ ret.kind = "None"
    /\ matched = 0
    /\ current_probe_keys # None
    /\ inserted[ProbedKey] = 0
    /\ \E j \in 1..Len(CursorChain) : inserted[CursorChain[j].key_values] >= 2

(***************************************************************************)
(* C21  stats is valid in every state and writes nothing.                  *)
(***************************************************************************)
\* C21: stats can be called in Building, Probing and Closed alike, always
\* returns a snapshot and never fails, and the buckets, the counters, the
\* lifecycle state and the probe cursor after the call are those before it.
C21_StatsAlwaysValidAndReadOnly ==
    /\ []( Running => ENABLED Call_stats )
    /\ []( op = "stats" => ret.kind = "Stats" )
    /\ [][ op' = "stats" =>
             /\ buckets' = buckets
             /\ <<num_entries', mem_used', mem_budget', num_keys'>> =
                   <<num_entries, mem_used, mem_budget, num_keys>>
             /\ <<spilled', state', temp_file'>> = <<spilled, state, temp_file>>
             /\ <<probe_bucket_idx', probe_entry_idx', current_probe_keys'>> =
                   <<probe_bucket_idx, probe_entry_idx, current_probe_keys>>
         ]_vars

\* stats on a table that was closed in the middle of a probe sequence
C21_Witness ==
    /\ op = "stats"
    /\ ret.kind = "Stats"
    /\ state = "Closed"
    /\ current_probe_keys # None
    /\ probe_entry_idx >= 2

(***************************************************************************)
(* C22  Collisions never lose entries.                                     *)
(***************************************************************************)
\* the number of successful inserts, and the keys inserted so far
RECURSIVE SumInserted(_)
SumInserted(keys) ==
    IF keys = {} THEN 0
    ELSE LET k == CHOOSE x \in keys : TRUE
         IN  inserted[k] + SumInserted(keys \ {k})

InsertedKeys == { k \in KeyDomain : inserted[k] > 0 }

\* the three parts of C22 that do not depend on the keys: until close the
\* table counts every successful insert, stats reports that count, and more
\* entries than buckets make a chain longer than one
CountsAndChains ==
    /\ state # "Closed" => num_entries = SumInserted(KeyDomain)
    /\ op = "stats" => ret.entry[1].num_entries = num_entries
    /\ (op = "stats" /\ num_entries > Len(buckets)) =>
           ret.entry[1].max_chain_length > 1

\* C22 as claimed: whatever the number of buckets and whichever N distinct
\* keys were inserted, after finalize_build probe of each of them returns
\* an entry with that key, stats().num_entries is N, and with more keys
\* than buckets stats().max_chain_length is above 1.
C22_EveryDistinctKeyRetrievable ==
    /\ CountsAndChains
    /\ (op = "probe" /\ Running /\ arg.key[1] \in InsertedKeys) =>
           (ret.kind = "Some" /\ Returned.key_values = arg.key[1])

\* C22: the same for keys without a Float NaN; a key with a NaN is counted
\* and chained like any other but probe of it returns None.
C22_DistinctKeysRetrievable ==
    /\ CountsAndChains
    /\ (op = "probe" /\ Running /\ arg.key[1] \in InsertedKeys) =>
           IF HasNaN(arg.key[1]) THEN ret.kind = "None"
           ELSE ret.kind = "Some" /\ Returned.key_values = arg.key[1]

\* three distinct keys, each inserted once, in one chain of a table of two
\* buckets, and the probe of the last of them has found it
C22_Witness ==
    /\ op = "probe"
    /\ ret.kind = "Some"
    /\ Len(buckets) = 2
    /\ Cardinality(InsertedKeys) = 3
    /\ \A k \in InsertedKeys : inserted[k] = 1
    /\ probe_entry_idx = 3
    /\ num_entries = 3

C24_KeyLengthIsNumKeys ==
    \A b \in 1..Len(buckets) : \A j \in 1..Len(buckets[b]) :
        Len(buckets[b][j].key_values) = num_keys

(***************************************************************************)
(* C25  finalize_build                                                     *)
(***************************************************************************)
\* C25: finalize_build called in Building moves the table to Probing and
\* changes nothing else, whether the table holds entries or none; called in
\* Probing (a second time) or in Closed it fails as a state violation and
\* changes nothing at all.
C25_FinalizeOnlyInBuilding ==
    [][ op' = "finalize_build" =>
          /\ buckets' = buckets
          /\ <<num_entries', mem_used', mem_budget', num_keys'>> =
                <<num_entries, mem_used, mem_budget, num_keys>>
          /\ <<spilled', temp_file', cursor'>> = <<spilled, temp_file, cursor>>
          /\ IF state = "Building"
             THEN state' = "Probing" /\ ret'.kind = "Unit"
             ELSE state' = state /\ ret' = Panic
      ]_vars

\* a second finalize_build on a table that holds entries
C25_Witness ==
    /\ op = "finalize_build"
    /\ ret = Panic
    /\ state = "Probing"
    /\ num_entries >= 2

(***************************************************************************)
(* C26  Matches come in insertion order, each once.                        *)
(***************************************************************************)
\* C26: probe returns the first entry of the key's chain, in insertion
\* order, that matches the probed key and leaves the cursor one behind it;
\* each next_match returns the next matching entry at a strictly higher
\* position; so the n-th entry returned is the n-th match of the chain, and
\* at exhaustion every match has been returned exactly once.
C26_MatchesInInsertionOrder ==
    /\ []( (state = "Probing" /\ ProbeStep /\ Running /\ current_probe_keys # None) =>
              /\ ret.kind = "Some" =>
                    /\ probe_entry_idx \in ChainMatches
                    /\ Returned = CursorChain[probe_entry_idx]
                    /\ matched = Cardinality({ j \in ChainMatches : j <= probe_entry_idx })
                    /\ op = "probe" => \A j \in ChainMatches : probe_entry_idx <= j
              /\ ret.kind = "None" =>
                    /\ matched = Cardinality(ChainMatches)
                    /\ op = "probe" => probe_entry_idx = 0 )
    /\ [][ (op' = "next_match" /\ ret'.kind = "Some") =>
              probe_entry_idx' > probe_entry_idx ]_vars

\* the third match of a key was returned from behind an entry of another key
C26_Witness ==
    /\ op = "next_match"
    /\ ret.kind = "Some"
    /\ matched = 3
    /\ probe_entry_idx = 4

(***************************************************************************)
(* C27  probe and next_match enumerate what find_matches lists.            *)
(***************************************************************************)
\* what HashBucket::find_matches lists for the probed key on the bucket of
\* its hash: the positions, from 0, of the matching entries in chain order
FoundByFindMatches ==
    find_matches(buckets[HashMod(hash_join_key(ProbedKey), Len(buckets)) + 1],
                 hash_join_key(ProbedKey), ProbedKey)

\* C27: the entries returned by probe(k) and the next_match calls after it
\* are, one by one and in the same order, the entries find_matches lists
\* for k on the bucket hash(k) mod num_buckets, and the scan is exhausted
\* exactly when that list is.
C27_ProbeSequenceIsFindMatches ==
    (state = "Probing" /\ ProbeStep /\ Running /\ current_probe_keys # None) =>
        /\ probe_bucket_idx = HashMod(hash_join_key(ProbedKey), Len(buckets))
        /\ ret.kind = "Some" =>
              /\ matched <= Len(FoundByFindMatches)
              /\ probe_entry_idx = FoundByFindMatches[matched] + 1
              /\ Returned = CursorChain[FoundByFindMatches[matched] + 1]
        /\ ret.kind = "None" => matched = Len(FoundByFindMatches)

\* a list of two matches was enumerated to its end in a chain that also
\* holds an entry of another key with the same hash
C27_Witness ==
    /\ op = "next_match"
    /\ ret.kind = "None"
    /\ matched = 2
    /\ Len(FoundByFindMatches) = 2
    /\ \E j \in 1..Len(CursorChain) :
          /\ CursorChain[j].hash = hash_join_key(ProbedKey)
          /\ CursorChain[j].key_values # ProbedKey

(***************************************************************************)
(* C28  mem_used never exceeds mem_budget.                                 *)
(***************************************************************************)
\* C28: in every reachable state mem_used <= mem_budget, whatever inserts
\* were accepted or rejected; a table with a budget below 8 bytes rejects
\* every insert and stays empty.
C28_MemUsedWithinBudget ==
    /\ mem_used <= mem_budget
    /\ mem_budget < 8 =>
          /\ num_entries = 0
          /\ mem_used = 0
          /\ (op = "insert" /\ Running) => ret.kind = "Err"

\* a table with a budget of less than 8 bytes has rejected an insert
C28_Witness ==
    /\ op = "insert"
    /\ ret.kind = "Err"
    /\ mem_budget < 8
    /\ state = "Building"

(***************************************************************************)
(* C29  The size of an entry.                                              *)
(***************************************************************************)
\* the footprint C29 gives a value, and the sum of the footprints of the
\* first n values of a tuple
Footprint(v) ==
    IF v.tag = "Null" THEN 1
    ELSE IF v.tag \in {"Integer", "Float"} THEN 8
    ELSE IF v.tag = "Text" THEN Len(v.s)
    ELSE Len(v.b)

RECURSIVE FootprintSum(_, _)
FootprintSum(key_values, n) ==
    IF n = 0 THEN 0
    ELSE FootprintSum(key_values, n - 1) + Footprint(key_values[n])

EntrySize(entry) ==
    FootprintSum(entry.key_values, Len(entry.key_values))
        + Len(entry.row_data.payload) + 8

\* C29: the size of an entry is the sum of the footprints of its key values
\* (Null 1, Integer 8, Float 8, Text and Blob their byte length) plus the
\* byte length of the row payload plus 8, so it is at least 8; a successful
\* insert raises mem_used by the size of its entry, hence strictly.
C29_EntrySizeIsFootprintSum ==
    /\ []( \A b \in 1..Len(buckets) : \A j \in 1..Len(buckets[b]) :
              /\ size_bytes(buckets[b][j]) = EntrySize(buckets[b][j])
              /\ size_bytes(buckets[b][j]) >= 8 )
    /\ [][ (op' = "insert" /\ ret'.kind = "Done") =>
              /\ mem_used' = mem_used
                    + EntrySize([key_values |-> arg'.key[1], row_data |-> arg'.row[1]])
              /\ mem_used' > mem_used ]_vars

\* an entry with a Null key, of the least size the model has, was inserted
\* behind an entry with a key of two Text values
C29_Witness ==
    /\ op = "insert"
    /\ ret.kind = "Done"
    /\ arg.key[1] = <<Null>>
    /\ num_entries = 2
    /\ mem_used = 11 + 13

(***************************************************************************)
(* C30  The snapshot of stats agrees with the table.                       *)
(***************************************************************************)
\* every (bucket, position) that holds an entry
Positions ==
    UNION { { <<b, j>> : j \in 1..Len(buckets[b]) } : b \in 1..Len(buckets) }

\* C30: in the snapshot stats returns, num_entries is the number of entries
\* in all chains, num_empty_buckets and the number of non-empty buckets add
\* up to num_buckets, max_chain_length is the length of the longest chain
\* (0 if there is none), and mem_used, mem_budget and spilled are the
\* fields of the table.
C30_StatsAgreesWithTable ==
    op = "stats" =>
        LET s == ret.entry[1]
        IN  /\ s.num_entries = Cardinality(Positions)
            /\ s.num_entries = num_entries
            /\ s.num_buckets = Len(buckets)
            /\ s.num_empty_buckets
                  + Cardinality({ b \in 1..Len(buckets) : buckets[b] # <<>> })
                  = s.num_buckets
            /\ \A b \in 1..Len(buckets) : Len(buckets[b]) <= s.max_chain_length
            /\ \/ s.max_chain_length = 0 /\ Positions = {}
               \/ \E b \in 1..Len(buckets) : Len(buckets[b]) = s.max_chain_length
            /\ s.mem_used = mem_used
            /\ s.mem_budget = mem_budget
            /\ s.spilled = spilled

\* the snapshot of a table of two buckets with two chains of different
\* lengths
C30_Witness ==
    /\ op = "stats"
    /\ Len(buckets) = 2
    /\ buckets[1] # <<>>
    /\ buckets[2] # <<>>
    /\ Len(buckets[1]) # Len(buckets[2])
    /\ ret.entry[1].max_chain_length >= 2
    /\ ret.entry[1].num_empty_buckets = 0

(***************************************************************************)
(* C31  The probe phase only reads the data.                               *)
(***************************************************************************)
\* C31: a call of probe or next_match, with a match or without, leaves the
\* contents of every bucket, num_entries, mem_used, mem_budget and the
\* lifecycle state as they were; of the table only the cursor may change.
C31_ProbePhaseReadOnly ==
    [][ op' \in {"probe", "next_match"} =>
          /\ buckets' = buckets
          /\ num_entries' = num_entries
          /\ mem_used' = mem_used
          /\ mem_budget' = mem_budget
          /\ state' = state
          /\ <<num_keys', spilled', temp_file'>> = <<num_keys, spilled, temp_file>>
      ]_vars

\* next_match has returned a second match from a table of three entries
C31_Witness ==
    /\ op = "next_match"
    /\ ret.kind = "Some"
    /\ matched = 2
    /\ num_entries = 3
    /\ mem_used > 0

(***************************************************************************)
(* C32  The budget error is recoverable.                                   *)
(***************************************************************************)
\* what C32 says of the steps around a rejected insert: the rejection
\* changes nothing in the table, so the table remains in Building with the
\* entries it held; an insert that follows it and fits the budget is
\* accepted; a finalize_build that follows it succeeds
StepsAroundRejection ==
    /\ (op' = "insert" /\ ret'.kind = "Err") =>
          /\ state' = "Building"
          /\ table' = table
          /\ inserted' = inserted
    /\ (op = "insert" /\ ret.kind = "Err" /\ op' = "insert"
            /\ mem_used + ArgSize' <= mem_budget) =>
          /\ ret'.kind = "Done"
          /\ num_entries' = num_entries + 1
    /\ (op = "insert" /\ ret.kind = "Err" /\ op' = "finalize_build") =>
          /\ ret'.kind = "Unit"
          /\ state' = "Probing"
          /\ buckets' = buckets

\* C32 as claimed: after a rejected insert the table is still in Building,
\* a later insert that fits and a later finalize_build succeed, and every
\* entry inserted before is found by probe of its key.
C32_RecoverableEveryKeyFound ==
    /\ []( (op = "insert" /\ ret.kind = "Err") => state = "Building" )
    /\ []( (op = "probe" /\ ret.kind \in {"Some", "None"}
               /\ inserted[arg.key[1]] > 0) =>
              (ret.kind = "Some" /\ Returned.key_values = arg.key[1]) )
    /\ [][StepsAroundRejection]_vars

\* C32: the same, with the entries found by probe being those whose key
\* holds no Float NaN.
C32_BudgetErrorRecoverable ==
    /\ []( (op = "insert" /\ ret.kind = "Err") => state = "Building" )
    /\ []( (op = "probe" /\ ret.kind \in {"Some", "None"}
               /\ inserted[arg.key[1]] > 0 /\ ~HasNaN(arg.key[1])) =>
              (ret.kind = "Some" /\ Returned.key_values = arg.key[1]) )
    /\ [][StepsAroundRejection]_vars

\* an insert was rejected by a table that holds entries and still has room
\* for the smallest entry
C32_Witness ==
    /\ op = "insert"
    /\ ret.kind = "Err"
    /\ state = "Building"
    /\ num_entries >= 1
    /\ mem_budget - mem_used >= 11

(***************************************************************************)
(* C33  next_match before any probe.                                       *)
(***************************************************************************)
\* C33: in Probing, a next_match called when no probe has been made since
\* finalize_build (no probe keys are stored) returns no entry and leaves
\* every field of the table, the cursor included, as it was.
C33_NextMatchBeforeProbe ==
    [][ (state = "Probing" /\ current_probe_keys = None /\ op' = "next_match") =>
          /\ ret'.kind = "None"
          /\ table' = table
          /\ matched' = matched
      ]_vars

\* next_match on a table of two entries that was finalized and never probed
C33_Witness ==
    /\ op = "next_match"
    /\ ret.kind = "None"
    /\ state = "Probing"
    /\ current_probe_keys = None
    /\ num_entries >= 2

C35_CursorInBounds ==
    (config.initial_buckets >= 1 /\ state = "Probing") =>
        /\ probe_bucket_idx < Len(buckets)
        /\ probe_entry_idx <= Len(buckets[probe_bucket_idx + 1])

\* the cursor stands at the end of a chain of two or more entries in the
\* last bucket of a table with several buckets
C35_Witness ==
    /\ state = "Probing"
    /\ Len(buckets) >= 2
    /\ probe_bucket_idx = Len(buckets) - 1
    /\ Len(buckets[probe_bucket_idx + 1]) >= 2
    /\ probe_entry_idx = Len(buckets[probe_bucket_idx + 1])

=============================================================================
